---- MODULE Spec2Model ----
(***************************************************************************)
(* Model of codeflow's tracing core:                                       *)
(*   core/safe_repr.py  SafeRepr       (value renderer)                    *)
(*   core/models.py     Event, CallNode, CallEdge, RunResult               *)
(*   core/tracer.py     TraceRecorder  (the sys.settrace callback)         *)
(*   core/runner.py     Runner.run     (installs the hook, runs the unit)  *)
(*                                                                         *)
(* Texts (str) are sequences of one-character strings.  An Optional field  *)
(* is None == <<>> or Some(x) == <<x>>.                                    *)
(***************************************************************************)
EXTENDS Integers, Sequences, FiniteSets, TLC

\* ---------------------------------------------------------------- bounds
\* Cap on the event-id counter of one run (number of recorded notifications).
MaxEvents == 4
\* Runner(max_repr_len=...): the renderer's limit, kept small in the model.
MaxReprLen == 2
\* Cap on the line notifications of a scenario unit: none once the log has
\* this many events.
MaxScenarioEvents == 5
\* Cap on the event-id counter of each of two consecutive runs.
MaxRunEvents == 2
\* Longest textual form handed directly to the renderer.
MaxTextLen == 6

\* ------------------------------------------------------- Optional values
None == <<>>
Some(x) == <<x>>

\* ------------------------------------------------------ runtime values
\* The one-character truncation marker appended by SafeRepr.
Marker == "..."
\* The text SafeRepr substitutes when repr(obj) raises an Exception.
Sentinel == <<"<", "u", "n", "r", "e", "p", "r", "-", "a", "b", "l", "e", ">">>

\* repr(None); what a frame unwound by an exception "returns".
NoneText == <<"N", "o", "n", "e">>

\* A runtime object as the recorder sees it: `text` is what repr() (for an
\* exception value: str()) produces, `ok` = FALSE when producing it raises.
\* `type` is the exception class name of an exception payload.
NoArg == [tag |-> "none", type |-> <<>>, text |-> <<>>, ok |-> TRUE]
Obj(text, ok) == [tag |-> "value", type |-> <<>>, text |-> text, ok |-> ok]
ExcInfo(type, text, ok) == [tag |-> "exc", type |-> type, text |-> text, ok |-> ok]

ShortValue == Obj(<<"7">>, TRUE)
LongValue == Obj([i \in 1..(MaxReprLen + 1) |-> "x"], TRUE)
NoneValue == Obj(NoneText, TRUE)
UnreprValue == Obj(<<>>, FALSE)
\* An object whose __repr__ raises a BaseException that is not an Exception
\* (KeyboardInterrupt, SystemExit).
FatalValue == [tag |-> "fatal", type |-> <<>>, text |-> <<>>, ok |-> FALSE]

\* Values a traced function returns (arg of a "return" notification).
ReturnValues == {ShortValue, LongValue, UnreprValue}
\* (exc_type, exc_val, tb) of an "exception" notification: an exception whose
\* str() works, and one whose __str__ itself raises.
ExcPayloads == {ExcInfo(<<"E">>, <<"m">>, TRUE), ExcInfo(<<"E">>, <<>>, FALSE)}

\* frame.f_locals: no local, or one local x.
NoLocals == [k \in {} |-> NoArg]
FrameLocals == {NoLocals} \cup {[k \in {"x"} |-> v] : v \in {LongValue}}

\* File names: the names run() may be given as user_filename, and the name
\* of a file that is not the traced one (library code).
UserFiles == {"user.py", ""}
LibFile == "lib.py"
FuncNames == {"f"}
LineNos == {1}

\* -------------------------------------------------------------- SafeRepr
\* Faulty variant of the renderer: truncation without the marker.
UnmarkedSafeRepr(obj) ==
    LET s == IF obj.ok THEN obj.text ELSE Sentinel
    IN  IF Len(s) > MaxReprLen THEN SubSeq(s, 1, MaxReprLen) ELSE s

\* SafeRepr.__call__ leaves with an exception: `except Exception` does not
\* catch what repr(obj) raises outside the Exception hierarchy.
SafeReprRaises(obj) == obj.tag = "fatal"

\* SafeRepr.__call__
SafeRepr(obj) ==
    LET s == IF obj.ok THEN obj.text ELSE Sentinel
    IN  IF Len(s) > MaxReprLen
        THEN SubSeq(s, 1, MaxReprLen) \o <<Marker>>
        ELSE s

\* ----------------------------------------------------------------- Event
\* Faulty variant of the validation: an id of 0 is let through.
LaxEventValid(e) ==
    /\ ~(e.id < 0)
    /\ ~(e.node_id < 0)
    /\ ~(e.lineno < 0)
    /\ e.func_name /= ""
    /\ e.filename /= ""

\* Event.__post_init__: TRUE when construction succeeds, FALSE when it
\* raises ValueError.
EventValid(e) ==
    /\ ~(e.id <= 0)
    /\ ~(e.node_id <= 0)
    /\ ~(e.lineno < 0)
    /\ e.func_name /= ""
    /\ e.filename /= ""

Event(id, type, node_id, func_name, filename, lineno, locals, arg) ==
    [id |-> id, type |-> type, node_id |-> node_id, func_name |-> func_name,
     filename |-> filename, lineno |-> lineno, locals |-> locals, arg |-> arg]

\* CallNode(...) as built by the call branch: the terminal fields default
\* to None.
CallNode(id, func_name, filename, call_event_id, args) ==
    [id |-> id, func_name |-> func_name, filename |-> filename,
     call_event_id |-> call_event_id, args |-> args,
     return_event_id |-> None, return_value |-> None, exception |-> None]

CallEdge(parent_id, child_id) == [parent_id |-> parent_id, child_id |-> child_id]

RunResult(status, evs, nds, eds, error) ==
    [status |-> status, events |-> evs, nodes |-> nds, edges |-> eds,
     error |-> error]

\* ------------------------------------------------------------------ state
VARIABLES
    user_filename,  \* TraceRecorder.user_filename
    events,         \* TraceRecorder.events      (list of Event)
    nodes,          \* TraceRecorder.nodes       (list of CallNode)
    edges,          \* TraceRecorder.edges       (list of CallEdge)
    event_id,       \* TraceRecorder._event_id
    node_id,        \* TraceRecorder._node_id
    call_stack,     \* TraceRecorder._call_stack (last = innermost)
    hook,           \* the interpreter's trace hook: "none" or "trace"
    pc,             \* position of Runner.run
    result,         \* the RunResult run returns: None or Some(RunResult)
    propagated,     \* the exception class leaving run, None when it returns
    unit_exit,      \* how exec(...) of the unit ended: None while it has not,
                    \* Some("returned") or Some(<exception class>)
    last,           \* the notification most recently delivered and how
                    \* trace left: "returned" or "raised"
    accepted_calls, \* call notifications that passed the scope filter
    nested_calls,   \* ... of which arrived while the call stack was non-empty
    rec_id,         \* identity of the TraceRecorder object run works with
                    \* (0: none was ever constructed)
    first,          \* the RunResult an earlier run() returned to the caller,
                    \* with the identity of the recorder whose lists it holds
    fcall           \* a direct call of a function of the data model or the
                    \* renderer: its name, argument and outcome

recorder == <<user_filename, events, nodes, edges, event_id, node_id, call_stack>>
runner == <<hook, pc, result, propagated, unit_exit>>
\* what Runner.run owns besides the hook
run_state == <<pc, result, propagated, unit_exit>>
history == <<last, accepted_calls, nested_calls>>
vars == <<user_filename, events, nodes, edges, event_id, node_id, call_stack,
          hook, pc, result, propagated, unit_exit, last, accepted_calls,
          nested_calls, rec_id, first, fcall>>
\* what the steps of one run and of trace never touch
aux == <<rec_id, first, fcall>>

\* -------------------------------------------------------- notifications
\* What the interpreter hands to trace(frame, event, arg).
Notif(kind, file, func, lineno, locals, arg) ==
    [kind |-> kind, file |-> file, func |-> func, lineno |-> lineno,
     locals |-> locals, arg |-> arg]

NotifsOf(file, lcls, rets, excs) ==
    {Notif(k, file, f, l, L, NoArg) :
        k \in {"call", "line"}, f \in FuncNames, l \in LineNos, L \in lcls}
    \cup {Notif("return", file, f, l, L, a) :
        f \in FuncNames, l \in LineNos, L \in lcls, a \in rets}
    \cup {Notif("exception", file, f, l, L, a) :
        f \in FuncNames, l \in LineNos, L \in lcls, a \in excs}

\* Notifications from the traced file and from another file.
UserNotifs == NotifsOf(user_filename, FrameLocals, ReturnValues, ExcPayloads)
LibNotifs == NotifsOf(LibFile, {NoLocals}, {ShortValue},
                      {ExcInfo(<<"E">>, <<"m">>, TRUE)})
Notifs == UserNotifs \cup LibNotifs

\* fcall before the function returns, and when no direct call is made.
NotReturned == [done |-> FALSE, raised |-> FALSE, value |-> <<>>]
NoCall == [fn |-> "none", arg |-> NoArg, ret |-> NotReturned]

NoNotif == [n |-> Notif("none", "", "", 0, NoLocals, NoArg), outcome |-> "none"]
Returned(n) == [n |-> n, outcome |-> "returned"]
Raised(n) == [n |-> n, outcome |-> "raised"]

\* ------------------------------------------------- TraceRecorder helpers
\* Faulty variant of _next_event_id: the counter sticks after the first id.
StuckNextEventId(id) == IF id = 0 THEN 1 ELSE id

\* TraceRecorder._next_event_id
NextEventId(id) == id + 1

\* TraceRecorder._next_node_id
NextNodeId(id) == id + 1

\* Faulty variant of _in_user_code: every frame passes the scope filter.
AnyFileInUserCode(n) == n.file = n.file

\* TraceRecorder._in_user_code
InUserCode(n) == n.file = user_filename

\* TraceRecorder._snapshot_locals
SnapshotLocals(n) == [k \in DOMAIN n.locals |-> SafeRepr(n.locals[k])]

\* Faulty variant of the current node: the outermost active call.
Bottom(stack) == stack[1]

\* self._call_stack[-1]
Top(stack) == stack[Len(stack)]

\* Faulty variant of the pop: the outermost id is removed (pop(0)).
PopBottom(stack) == SubSeq(stack, 2, Len(stack))

\* self._call_stack.pop()
Pop(stack) == SubSeq(stack, 1, Len(stack) - 1)

Min(S) == CHOOSE x \in S : \A y \in S : x <= y

\* Faulty variant of _set_node_return: the rendered value is not stored.
IdOnlySetNodeReturn(nds, nid, eid, ret_repr) ==
    LET hits == {i \in 1..Len(nds) : nds[i].id = nid}
    IN  IF hits = {} THEN nds
        ELSE [nds EXCEPT ![Min(hits)].return_event_id = Some(eid)]

\* Faulty variant of _set_node_return: the most recently created node is
\* completed, whatever its id.
LastSetNodeReturn(nds, nid, eid, ret_repr) ==
    IF nds = <<>> THEN nds
    ELSE [nds EXCEPT ![Len(nds)].return_event_id = Some(eid),
                     ![Len(nds)].return_value = Some(ret_repr)]

\* TraceRecorder._set_node_return: first node with that id, if any.
SetNodeReturn(nds, nid, eid, ret_repr) ==
    LET hits == {i \in 1..Len(nds) : nds[i].id = nid}
    IN  IF hits = {} THEN nds
        ELSE [nds EXCEPT ![Min(hits)].return_event_id = Some(eid),
                         ![Min(hits)].return_value = Some(ret_repr)]

\* TraceRecorder._set_node_exception: first node with that id, if any.
SetNodeException(nds, nid, exc_repr) ==
    LET hits == {i \in 1..Len(nds) : nds[i].id = nid}
    IN  IF hits = {} THEN nds
        ELSE [nds EXCEPT ![Min(hits)].exception = Some(exc_repr)]

\* Faulty variant of the call branch's edge: no edge from an outermost call
\* to its callee.
DeepCallEdges(stack, eds, nid) ==
    IF Len(stack) > 1 THEN Append(eds, CallEdge(Top(stack), nid)) ELSE eds

\* Faulty variant of the call branch's edge: the parent is read after the
\* push, so it is the new node itself.
SelfCallEdges(stack, eds, nid) ==
    IF stack /= <<>> THEN Append(eds, CallEdge(nid, nid)) ELSE eds

\* Faulty variant of the call branch's edge: callee and caller swapped.
ReversedCallEdges(stack, eds, nid) ==
    IF stack /= <<>> THEN Append(eds, CallEdge(nid, Top(stack))) ELSE eds

\* The call branch's edge: appended only when a call is active.
CallEdges(stack, eds, nid) ==
    IF stack /= <<>> THEN Append(eds, CallEdge(Top(stack), nid)) ELSE eds

\* f"{exc_type.__name__}: {exc_val}"
ExcRepr(arg) == arg.type \o <<":", " ">> \o arg.text

\* The interpreter calls trace only while it is the installed hook and the
\* unit is executing.
Tracing == pc = "exec" /\ hook = "trace"

\* When the trace function raises, the interpreter unsets the hook and the
\* error surfaces inside the traced unit.
TraceRaises(n) == /\ last' = Raised(n)
                  /\ hook' = "none"

TraceReturns(n) == /\ last' = Returned(n)
                   /\ hook' = hook

IsSet(opt) == opt /= None

\* ------------------------------------------------------------------- Init
\* A Runner before run() is called: no recorder yet, no hook installed.
\* A Runner on which run was not called yet; no recorder exists.
IdleRunner ==
    /\ user_filename = ""
    /\ events = <<>>
    /\ nodes = <<>>
    /\ edges = <<>>
    /\ event_id = 0
    /\ node_id = 0
    /\ call_stack = <<>>
    /\ hook = "none"
    /\ pc = "idle"
    /\ result = None
    /\ propagated = None
    /\ unit_exit = None
    /\ last = NoNotif
    /\ accepted_calls = 0
    /\ nested_calls = 0
    /\ rec_id = 0
    /\ first = None

Init == IdleRunner /\ fcall = NoCall

\* ------------------------------------------------- TraceRecorder.trace
\* Scope filter: a frame of another file; trace returns at once.
TraceForeign(n) ==
    /\ Tracing
    /\ ~InUserCode(n)
    /\ TraceReturns(n)
    /\ UNCHANGED <<recorder, run_state, accepted_calls, nested_calls>>

\* event == "call"
TraceCall(n) ==
    /\ Tracing
    /\ InUserCode(n)
    /\ n.kind = "call"
    /\ LET nid == NextNodeId(node_id)
           eid == NextEventId(event_id)
           call_locals == SnapshotLocals(n)
           ev == Event(eid, "call", nid, n.func, n.file, n.lineno, call_locals, None)
       IN  /\ node_id' = nid
           /\ edges' = CallEdges(call_stack, edges, nid)
           /\ event_id' = eid
           /\ IF EventValid(ev)
              THEN /\ events' = Append(events, ev)
                   /\ nodes' = Append(nodes,
                                  CallNode(nid, n.func, n.file, eid, call_locals))
                   /\ call_stack' = Append(call_stack, nid)
                   /\ TraceReturns(n)
              ELSE /\ UNCHANGED <<events, nodes, call_stack>>
                   /\ TraceRaises(n)
    /\ accepted_calls' = accepted_calls + 1
    /\ nested_calls' = IF call_stack /= <<>> THEN nested_calls + 1 ELSE nested_calls
    /\ UNCHANGED <<user_filename, run_state>>

\* Faulty variant of the empty-stack guard: the event id is allocated before
\* the guard is tested.
EagerIdTraceNoNode(n) ==
    /\ Tracing
    /\ InUserCode(n)
    /\ n.kind /= "call"
    /\ call_stack = <<>>
    /\ event_id < MaxEvents
    /\ event_id' = NextEventId(event_id)
    /\ TraceReturns(n)
    /\ UNCHANGED <<user_filename, events, nodes, edges, node_id, call_stack,
                   run_state, accepted_calls, nested_calls>>

\* line/return/exception with no current node: `if not self._call_stack`
TraceNoNode(n) ==
    /\ Tracing
    /\ InUserCode(n)
    /\ n.kind /= "call"
    /\ call_stack = <<>>
    /\ TraceReturns(n)
    /\ UNCHANGED <<recorder, run_state, accepted_calls, nested_calls>>

\* event == "line"
TraceLine(n) ==
    /\ Tracing
    /\ InUserCode(n)
    /\ n.kind = "line"
    /\ call_stack /= <<>>
    /\ LET nid == Top(call_stack)
           eid == NextEventId(event_id)
           ev == Event(eid, "line", nid, n.func, n.file, n.lineno,
                       SnapshotLocals(n), None)
       IN  /\ event_id' = eid
           /\ IF EventValid(ev)
              THEN events' = Append(events, ev) /\ TraceReturns(n)
              ELSE UNCHANGED events /\ TraceRaises(n)
    /\ UNCHANGED <<user_filename, nodes, edges, node_id, call_stack,
                   run_state, accepted_calls, nested_calls>>

\* Faulty variant of the return branch: the node is completed and popped but
\* no event is recorded.
SilentTraceReturn(n) ==
    /\ Tracing
    /\ InUserCode(n)
    /\ n.kind = "return"
    /\ call_stack /= <<>>
    /\ LET nid == Top(call_stack)
           eid == NextEventId(event_id)
       IN  /\ event_id' = eid
           /\ nodes' = SetNodeReturn(nodes, nid, eid, SafeRepr(n.arg))
           /\ call_stack' = Pop(call_stack)
           /\ TraceReturns(n)
    /\ UNCHANGED <<user_filename, events, edges, node_id,
                   run_state, accepted_calls, nested_calls>>

\* The return branch: event, node completion, pop.
TraceReturn(n) ==
    /\ Tracing
    /\ InUserCode(n)
    /\ n.kind = "return"
    /\ call_stack /= <<>>
    /\ LET nid == Top(call_stack)
           eid == NextEventId(event_id)
           ret_repr == SafeRepr(n.arg)
           ev == Event(eid, "return", nid, n.func, n.file, n.lineno,
                       SnapshotLocals(n), Some(ret_repr))
       IN  /\ event_id' = eid
           /\ IF EventValid(ev)
              THEN /\ events' = Append(events, ev)
                   /\ nodes' = SetNodeReturn(nodes, nid, eid, ret_repr)
                   /\ call_stack' = Pop(call_stack)
                   /\ TraceReturns(n)
              ELSE /\ UNCHANGED <<events, nodes, call_stack>>
                   /\ TraceRaises(n)
    /\ UNCHANGED <<user_filename, edges, node_id,
                   run_state, accepted_calls, nested_calls>>

\* event == "exception"
TraceException(n) ==
    /\ Tracing
    /\ InUserCode(n)
    /\ n.kind = "exception"
    /\ call_stack /= <<>>
    /\ LET nid == Top(call_stack)
           eid == NextEventId(event_id)
           exc_repr == ExcRepr(n.arg)
           ev == Event(eid, "exception", nid, n.func, n.file, n.lineno,
                       SnapshotLocals(n), Some(exc_repr))
       IN  /\ event_id' = eid
           /\ IF n.arg.ok /\ EventValid(ev)
              THEN /\ events' = Append(events, ev)
                   /\ nodes' = SetNodeException(nodes, nid, exc_repr)
                   /\ TraceReturns(n)
              ELSE \* str(exc_val) raised inside the f-string, or Event(...) did
                   /\ UNCHANGED <<events, nodes>>
                   /\ TraceRaises(n)
    /\ UNCHANGED <<user_filename, edges, node_id, call_stack,
                   run_state, accepted_calls, nested_calls>>

\* -------------------------------------------------------------- Runner.run
\* traceback.format_exc(limit=20): a non-empty description of the failure.
FormatExc(cls) == <<"Traceback", cls>>

\* Exception classes that can end the unit: a subclass of Exception, and one
\* that derives from BaseException only (sys.exit(), Ctrl-C).
UnitErrors == {"ValueError", "SystemExit"}
\* `except Exception` catches it
IsException(cls) == cls \in {"ValueError", "SyntaxError"}

\* Faulty variant of the recorder construction: run keeps working with the
\* recorder it already has.
ReusedRecorder(ufn) ==
    IF rec_id = 0
    THEN /\ rec_id' = 1
         /\ user_filename' = ufn
         /\ UNCHANGED <<events, nodes, edges, event_id, node_id, call_stack>>
    ELSE UNCHANGED <<recorder, rec_id>>

\* recorder = TraceRecorder(user_filename=..., safe_repr=...): a new object
\* with its own empty lists and counters at 0.
NewRecorder(ufn) ==
    /\ rec_id' = rec_id + 1
    /\ user_filename' = ufn
    /\ events' = <<>>
    /\ nodes' = <<>>
    /\ edges' = <<>>
    /\ event_id' = 0
    /\ node_id' = 0
    /\ call_stack' = <<>>

\* run(code, user_filename): recorder = TraceRecorder(...), env = {...}
Run(ufn) ==
    /\ pc = "idle"
    /\ pc' = "try"
    /\ NewRecorder(ufn)
    /\ UNCHANGED <<hook, result, propagated, unit_exit, history>>

\* run is called again on the same Runner after an earlier call returned
\* its RunResult, which the caller keeps.
RunAgain(ufn) ==
    /\ pc = "done"
    /\ IsSet(result)
    /\ first = None
    /\ first' = Some([res |-> result[1], rec |-> rec_id])
    /\ pc' = "try"
    /\ NewRecorder(ufn)
    /\ result' = None
    /\ propagated' = None
    /\ unit_exit' = None
    /\ last' = NoNotif
    /\ accepted_calls' = 0
    /\ nested_calls' = 0
    /\ UNCHANGED hook

\* Faulty variant of run_file: the file is opened inside run's try block.
RunFileCaught ==
    /\ pc = "idle"
    /\ pc' = "open_failed"
    /\ result' = Some(RunResult("runtime_error", events, nodes, edges,
                                Some(FormatExc("OSError"))))
    /\ UNCHANGED <<recorder, hook, propagated, unit_exit, history>>

\* run_file(filepath) on a file that cannot be read: open()/read() raises
\* and run is never called.
RunFileUnreadable ==
    /\ pc = "idle"
    /\ pc' = "open_failed"
    /\ propagated' = Some("OSError")
    /\ UNCHANGED <<recorder, hook, result, unit_exit, history>>

\* compile(code, user_filename, "exec") succeeds; sys.settrace(recorder.trace)
CompileOk ==
    /\ pc = "try"
    /\ hook' = "trace"
    /\ pc' = "exec"
    /\ UNCHANGED <<recorder, result, propagated, unit_exit, history>>

\* Faulty variant of the except handler: the description is not stored.
NoErrorExcept(cls) ==
    /\ IF IsException(cls)
       THEN /\ result' = Some(RunResult("runtime_error", events, nodes, edges, None))
            /\ propagated' = None
       ELSE /\ result' = None
            /\ propagated' = Some(cls)
    /\ pc' = "finally"

\* The except handler: build the runtime_error result
Except(cls) ==
    /\ IF IsException(cls)
       THEN /\ result' = Some(RunResult("runtime_error", events, nodes, edges,
                                        Some(FormatExc(cls))))
            /\ propagated' = None
       ELSE /\ result' = None
            /\ propagated' = Some(cls)
    /\ pc' = "finally"

\* compile(...) raises (SyntaxError): the hook was never installed
CompileFails ==
    /\ pc = "try"
    /\ Except("SyntaxError")
    /\ UNCHANGED <<recorder, hook, unit_exit, history>>

\* exec(compiled, env, env) returns: return RunResult(status="ok", ...)
ExecReturns ==
    /\ pc = "exec"
    /\ result' = Some(RunResult("ok", events, nodes, edges, None))
    /\ propagated' = None
    /\ pc' = "finally"
    /\ unit_exit' = Some("returned")
    /\ last' = NoNotif
    /\ UNCHANGED <<recorder, hook, accepted_calls, nested_calls>>

\* an exception escapes exec(compiled, env, env)
ExecRaises(cls) ==
    /\ pc = "exec"
    /\ Except(cls)
    /\ unit_exit' = Some(cls)
    /\ last' = NoNotif
    /\ UNCHANGED <<recorder, hook, accepted_calls, nested_calls>>

\* Faulty variant of the finally clause: the hook is reset only when run
\* has a result to return.
ResultOnlyFinally ==
    /\ pc = "finally"
    /\ hook' = IF result = None THEN hook ELSE "none"
    /\ pc' = "done"
    /\ UNCHANGED <<recorder, result, propagated, unit_exit, history>>

\* finally: sys.settrace(None); then run returns or the exception goes on
Finally ==
    /\ pc = "finally"
    /\ hook' = "none"
    /\ pc' = "done"
    /\ UNCHANGED <<recorder, result, propagated, unit_exit, history>>

\* ------------------------------------------------------------------- Next
\* One run of a Runner under any sequence of notifications; the event-id
\* counter is capped at MaxEvents.
Next ==
    \/ \E ufn \in UserFiles : Run(ufn) /\ UNCHANGED <<first, fcall>>
    \/ RunFileUnreadable /\ UNCHANGED aux
    \/ CompileOk /\ UNCHANGED aux
    \/ CompileFails /\ UNCHANGED aux
    \/ \E n \in Notifs : TraceForeign(n) /\ UNCHANGED aux
    \/ \E n \in Notifs : event_id < MaxEvents /\ TraceCall(n) /\ UNCHANGED aux
    \/ \E n \in Notifs : TraceNoNode(n) /\ UNCHANGED aux
    \/ \E n \in Notifs : event_id < MaxEvents /\ TraceLine(n) /\ UNCHANGED aux
    \/ \E n \in Notifs : event_id < MaxEvents /\ TraceReturn(n) /\ UNCHANGED aux
    \/ \E n \in Notifs : event_id < MaxEvents /\ TraceException(n) /\ UNCHANGED aux
    \/ ExecReturns /\ UNCHANGED aux
    \/ \E cls \in UnitErrors : ExecRaises(cls) /\ UNCHANGED aux
    \/ Finally /\ UNCHANGED aux

Spec == Init /\ [][Next]_vars

\* -------------------------------------------------------------- scenarios
\* Units of the shapes the test suite traces, run from a file with a proper
\* name; the notifications are the ones the interpreter sends for that shape.
UnitFile == "user.py"
\* An exception whose str() works.
OkExc == ExcInfo(<<"E">>, <<"m">>, TRUE)
UnitNotifs == NotifsOf(UnitFile, FrameLocals, ReturnValues, {OkExc})
\* A frame unwound by an exception sends "return" with arg None.
UnwindNotifs == NotifsOf(UnitFile, FrameLocals, {NoneValue}, {OkExc})

\* An exception has been raised in the unit (and, in scenario C, escapes).
Raising == \E i \in 1..Len(nodes) : IsSet(nodes[i].exception)
\* The innermost active call has already been notified of the exception.
Unwinding ==
    /\ call_stack /= <<>>
    /\ \E i \in 1..Len(nodes) :
           nodes[i].id = Top(call_stack) /\ IsSet(nodes[i].exception)

\* Scenario A (test_simple_function): one call, lines, one normal return.
NextA ==
    \/ Run(UnitFile) /\ UNCHANGED <<first, fcall>>
    \/ CompileOk /\ UNCHANGED aux
    \/ \E n \in UnitNotifs : accepted_calls = 0 /\ TraceCall(n) /\ UNCHANGED aux
    \/ \E n \in UnitNotifs :
          Len(events) < MaxScenarioEvents /\ TraceLine(n) /\ UNCHANGED aux
    \/ \E n \in UnitNotifs : TraceReturn(n) /\ UNCHANGED aux
    \/ call_stack = <<>> /\ accepted_calls = 1 /\ ExecReturns /\ UNCHANGED aux
    \/ Finally /\ UNCHANGED aux

SpecA == Init /\ [][NextA]_vars

\* The same notifications from frames without local variables.
BareNotifs == NotifsOf(UnitFile, {NoLocals}, ReturnValues, {OkExc})

\* Scenario B (test_recursive_fib): a function that calls itself twice
\* before returning; the two inner invocations return without recursing.
NextB ==
    \/ Run(UnitFile) /\ UNCHANGED <<first, fcall>>
    \/ CompileOk /\ UNCHANGED aux
    \/ \E n \in BareNotifs :
          /\ accepted_calls < 3
          /\ Len(call_stack) = (IF accepted_calls = 0 THEN 0 ELSE 1)
          /\ TraceCall(n)
          /\ UNCHANGED aux
    \/ \E n \in BareNotifs :
          Len(events) < MaxScenarioEvents /\ TraceLine(n) /\ UNCHANGED aux
    \/ \E n \in BareNotifs :
          /\ Len(call_stack) = 2 \/ accepted_calls = 3
          /\ TraceReturn(n)
          /\ UNCHANGED aux
    \/ call_stack = <<>> /\ accepted_calls = 3 /\ ExecReturns /\ UNCHANGED aux
    \/ Finally /\ UNCHANGED aux

SpecB == Init /\ [][NextB]_vars

\* Scenario C: a function, called at depth one or two, raises; the exception
\* unwinds every active frame (exception, then return with arg None, frame
\* by frame) and escapes exec.
NextC ==
    \/ Run(UnitFile) /\ UNCHANGED <<first, fcall>>
    \/ CompileOk /\ UNCHANGED aux
    \/ \E n \in UnwindNotifs :
          ~Raising /\ Len(call_stack) < 2 /\ TraceCall(n) /\ UNCHANGED aux
    \/ \E n \in UnwindNotifs :
          /\ ~Raising
          /\ Len(events) < MaxScenarioEvents
          /\ TraceLine(n)
          /\ UNCHANGED aux
    \/ \E n \in UnwindNotifs : ~Unwinding /\ TraceException(n) /\ UNCHANGED aux
    \/ \E n \in UnwindNotifs : Unwinding /\ TraceReturn(n) /\ UNCHANGED aux
    \/ Raising /\ call_stack = <<>> /\ ExecRaises("ValueError") /\ UNCHANGED aux
    \/ Finally /\ UNCHANGED aux

SpecC == Init /\ [][NextC]_vars

\* Two consecutive runs on one Runner, each of at most MaxRunEvents events;
\* the caller keeps the first RunResult.
NextTwoRuns ==
    \/ Run(UnitFile) /\ UNCHANGED <<first, fcall>>
    \/ RunAgain(UnitFile) /\ UNCHANGED fcall
    \/ CompileOk /\ UNCHANGED aux
    \/ CompileFails /\ UNCHANGED aux
    \/ \E n \in BareNotifs :
          event_id < MaxRunEvents /\ TraceCall(n) /\ UNCHANGED aux
    \/ \E n \in BareNotifs :
          event_id < MaxRunEvents /\ TraceLine(n) /\ UNCHANGED aux
    \/ \E n \in BareNotifs :
          event_id < MaxRunEvents /\ TraceReturn(n) /\ UNCHANGED aux
    \/ ExecReturns /\ UNCHANGED aux
    \/ ExecRaises("ValueError") /\ UNCHANGED aux
    \/ Finally /\ UNCHANGED aux

SpecTwoRuns == Init /\ [][NextTwoRuns]_vars

\* The first RunResult as the caller sees it now: RunResult(events=
\* recorder.events, ...) holds the recorder's list objects, so it shows what
\* those lists hold as long as that recorder is the one being written.
FirstResultNow ==
    IF first[1].rec = rec_id
    THEN [first[1].res EXCEPT !.events = events, !.nodes = nodes,
                              !.edges = edges]
    ELSE first[1].res

\* ----------------------------------------------------------- direct calls
\* Functions called on their own: the argument is drawn initially, one step
\* applies the function and stores how it left.
Call(fn, arg) == [fn |-> fn, arg |-> arg, ret |-> NotReturned]
Returns(v) == [done |-> TRUE, raised |-> FALSE, value |-> v]
Raises == [done |-> TRUE, raised |-> TRUE, value |-> <<>>]

TextsUpTo(alphabet, n) == UNION {[1..k -> alphabet] : k \in 0..n}
\* What repr(obj) may give: any text, the marker character included.
RenderTexts == TextsUpTo({"a", Marker}, MaxTextLen)
RenderInputs ==
    {Obj(t, TRUE) : t \in RenderTexts} \cup {UnreprValue, FatalValue}

InitRender ==
    /\ IdleRunner
    /\ fcall \in {Call("safe_repr", obj) : obj \in RenderInputs}

\* safe_repr(obj)
Render ==
    /\ fcall.fn = "safe_repr"
    /\ ~fcall.ret.done
    /\ fcall' = [fcall EXCEPT !.ret = IF SafeReprRaises(fcall.arg)
                                      THEN Raises
                                      ELSE Returns(SafeRepr(fcall.arg))]
    /\ UNCHANGED <<recorder, runner, history, rec_id, first>>

SpecRender == InitRender /\ [][Render]_vars

\* EventType: the values of its four members.
EventTypeValues == {"call", "line", "return", "exception"}
\* The type field of an Event object: an EventType member (what the factory
\* methods store) or the plain str the recorder passes to Event(...).
PyType(member, value) == [member |-> member, value |-> value]
PyEvent(e, member) == [e EXCEPT !.type = PyType(member, e.type)]

\* Event.to_dict: self.type.value exists on an EventType member only.
ToDictRaises(pe) == ~pe.type.member
ToDict(pe) == [pe EXCEPT !.type = pe.type.value]

\* Event.from_dict: EventType(data['type']), then __post_init__.
FromDictRaises(d) == d.type \notin EventTypeValues \/ ~EventValid(d)
FromDict(d) == [d EXCEPT !.type = PyType(TRUE, d.type)]

\* Dataclass equality, field by field; an EventType member equals the str
\* of its value (EventType derives from str).
PyEq(a, b) ==
    /\ a.type.value = b.type.value
    /\ [a EXCEPT !.type = ""] = [b EXCEPT !.type = ""]

\* Event objects of the program: built by the recorder or by a factory
\* method, with rendered locals and an optional rendered arg.
RenderedLocals == {[k \in DOMAIN L |-> SafeRepr(L[k])] : L \in FrameLocals}
EventObjects ==
    {PyEvent(Event(id, t, 1, f, UnitFile, l, L, a), m) :
        id \in {1, 2}, t \in EventTypeValues, f \in FuncNames, l \in {0, 1},
        L \in RenderedLocals, a \in {None, Some(SafeRepr(ShortValue))},
        m \in BOOLEAN}

InitRoundTrip ==
    /\ IdleRunner
    /\ fcall \in {Call("round_trip", pe) : pe \in EventObjects}

\* Event.from_dict(e.to_dict())
RoundTrip ==
    /\ fcall.fn = "round_trip"
    /\ ~fcall.ret.done
    /\ fcall' = [fcall EXCEPT !.ret =
                    IF ToDictRaises(fcall.arg) THEN Raises
                    ELSE IF FromDictRaises(ToDict(fcall.arg)) THEN Raises
                    ELSE Returns(FromDict(ToDict(fcall.arg)))]
    /\ UNCHANGED <<recorder, runner, history, rec_id, first>>

SpecRoundTrip == InitRoundTrip /\ [][RoundTrip]_vars

\* Arguments Event(...) may be called with, valid or not.
EventArgs ==
    {Event(id, "line", nid, f, file, l, NoLocals, None) :
        id \in {-1, 0, 1, 2}, nid \in {-1, 0, 1}, f \in {"", "f"},
        file \in {"", UnitFile}, l \in {-1, 0, 1}}

InitEvent ==
    /\ IdleRunner
    /\ fcall \in {Call("Event", a) : a \in EventArgs}

\* Event(id=..., ...): the dataclass __init__ stores the fields, then
\* __post_init__ validates them.
NewEvent ==
    /\ fcall.fn = "Event"
    /\ ~fcall.ret.done
    /\ fcall' = [fcall EXCEPT !.ret = IF EventValid(fcall.arg)
                                      THEN Returns(fcall.arg)
                                      ELSE Raises]
    /\ UNCHANGED <<recorder, runner, history, rec_id, first>>

SpecEvent == InitEvent /\ [][NewEvent]_vars

\* ================================================================ claims
\* A step in which trace was called with notification l.n (l = last').
Delivered(l) == l.outcome /= "none" /\ l /= last

CallEvents == {i \in 1..Len(events) : events[i].type = "call"}

\* C1: no CallNode has both return_value and exception set; a node that
\* received a return (return_event_id set) has return_value set and exception
\* unset, and a node with exception set has return_value unset.
C1_ReturnXorException ==
    \A i \in 1..Len(nodes) :
        /\ ~(IsSet(nodes[i].return_value) /\ IsSet(nodes[i].exception))
        /\ IsSet(nodes[i].return_event_id) =>
               IsSet(nodes[i].return_value) /\ ~IsSet(nodes[i].exception)
        /\ IsSet(nodes[i].exception) => ~IsSet(nodes[i].return_value)

\* C2: event ids are strictly increasing along the event log, whatever the
\* nesting depth of the calls.
C2_EventIdsIncreasing ==
    \A i, j \in 1..Len(events) : i < j => events[i].id < events[j].id

C2_Witness ==
    /\ Len(events) >= 3
    /\ Len(call_stack) >= 2
    /\ \E i \in 1..Len(events) : events[i].type = "return"

\* C3: every call notification accepted by the scope filter creates exactly
\* one CallNode, whose call_event_id is the id of that call event and whose id
\* is that event's node_id; the number of nodes equals the number of call
\* events in the log.
C3_OneNodePerAcceptedCall ==
    /\ Len(nodes) = accepted_calls
    /\ Cardinality(CallEvents) = Len(nodes)
    /\ \A i \in 1..Len(nodes) :
           Cardinality({j \in CallEvents :
                           /\ events[j].id = nodes[i].call_event_id
                           /\ events[j].node_id = nodes[i].id}) = 1

\* C4: the number of edges equals the number of accepted call notifications
\* that arrived while the call stack was non-empty (accepted calls minus the
\* calls that arrived with an empty stack).
C4_EdgesCountNestedCalls ==
    /\ Len(edges) = nested_calls
    /\ nested_calls <= accepted_calls

C4_Witness ==
    /\ Len(edges) = 2
    /\ accepted_calls = 3
    /\ Len(call_stack) = 2

\* C5: a notification of any kind from a file other than the traced one
\* changes nothing in the recorder: no event, no event id, no node id, and
\* nodes, edges and call stack as before; trace returns normally.
C5_ForeignFileIgnored ==
    [][(Delivered(last') /\ last'.n.file /= user_filename)
          => (UNCHANGED recorder /\ last'.outcome = "returned")]_vars

C5_Witness ==
    /\ last.outcome = "returned"
    /\ last.n.file /= user_filename
    /\ last.n.kind = "return"
    /\ call_stack /= <<>>
    /\ Len(events) >= 2

\* C6: a line, return or exception notification from the traced file that
\* arrives while the call stack is empty is ignored: no event id allocated,
\* events, nodes, edges and call stack unchanged.
C6_NoCurrentNodeIgnored ==
    [][(/\ Delivered(last')
        /\ last'.n.file = user_filename
        /\ last'.n.kind \in {"line", "return", "exception"}
        /\ call_stack = <<>>)
          => (UNCHANGED recorder /\ last'.outcome = "returned")]_vars

C6_Witness ==
    /\ last.outcome = "returned"
    /\ last.n.file = user_filename
    /\ last.n.kind = "exception"
    /\ call_stack = <<>>
    /\ events /= <<>>
    /\ events[Len(events)].type = "return"
    /\ event_id = Len(events)

\* C7: trace never raises, whatever the notification and the stack.
C7_TraceNeverRaises == last.outcome /= "raised"

\* C8: the hook is installed by the step that starts executing the unit and
\* at no other time, and it is uninstalled when run exits, on every exit
\* path.
C8_HookScoped ==
    /\ [](/\ pc \in {"idle", "try", "done"} => hook = "none"
          /\ hook = "trace" => pc \in {"exec", "finally"})
    /\ [][(pc /= "exec" /\ pc' = "exec") => (hook = "none" /\ hook' = "trace")]_vars

\* run has exited by propagating an exception, after the hook had been
\* installed and notifications recorded.
C8_Witness ==
    /\ pc = "done"
    /\ IsSet(propagated)
    /\ IsSet(unit_exit)
    /\ events /= <<>>
    /\ hook = "none"

UnitRaised == IsSet(unit_exit) /\ unit_exit /= Some("returned")

\* C9: whenever an exception escapes the unit, run does not propagate it and
\* returns a RunResult of status runtime_error holding exactly the recorder's
\* events, nodes and edges.
C9_UnitFailureBecomesResult ==
    UnitRaised =>
        /\ ~IsSet(propagated)
        /\ IsSet(result)
        /\ result[1].status = "runtime_error"
        /\ result[1].events = events
        /\ result[1].nodes = nodes
        /\ result[1].edges = edges

\* C10: in every RunResult, error is set iff status is runtime_error; the unit
\* returning gives status ok, no error and the recorder's lists; a failure
\* that yields a result gives runtime_error with a non-empty error.
C10_ErrorIffRuntimeError ==
    /\ IsSet(result) =>
          /\ result[1].status \in {"ok", "runtime_error"}
          /\ IsSet(result[1].error) <=> result[1].status = "runtime_error"
          /\ IsSet(result[1].error) => Len(result[1].error[1]) > 0
          /\ result[1].status = "ok" <=> unit_exit = Some("returned")
          /\ result[1].events = events
          /\ result[1].nodes = nodes
          /\ result[1].edges = edges
    /\ unit_exit = Some("returned") => IsSet(result)

C10_Witness ==
    /\ pc = "done"
    /\ IsSet(result)
    /\ result[1].status = "runtime_error"
    /\ IsSet(result[1].error)
    /\ result[1].events /= <<>>

\* C11: when a function raises and the exception escapes the unit, every
\* node the exception went through ends with exception set and return_value
\* unset, and run returns a runtime_error result with a non-empty error that
\* holds what was recorded.
C11_RaisingNodeHasNoReturnValue ==
    pc = "done" /\ Raising =>
        /\ \A i \in 1..Len(nodes) :
               IsSet(nodes[i].exception) => ~IsSet(nodes[i].return_value)
        /\ IsSet(result)
        /\ result[1].status = "runtime_error"
        /\ IsSet(result[1].error)
        /\ result[1].error[1] /= <<>>

Terminated(nd) ==
    IsSet(nd.return_event_id) \/ IsSet(nd.return_value) \/ IsSet(nd.exception)

\* C14: once a return or an exception notification has written a terminal
\* field of a node (return_event_id, return_value, exception), no later
\* notification writes that node again.
C14_TerminalFieldsWrittenOnce ==
    [][\A i \in 1..Len(nodes) :
          i <= Len(nodes') /\ Terminated(nodes[i]) => nodes'[i] = nodes[i]]_vars

\* The notification passes the scope filter and, unless it is a call, finds
\* an active call.
Accepted(n) ==
    n.file = user_filename /\ (n.kind = "call" \/ call_stack /= <<>>)

\* C15: every step leaves the recorded events in place (the log before is a
\* prefix of the log after), removes no node and no edge, and adds exactly
\* one event when it delivers an accepted notification, none otherwise.
C15_AppendOnlyOneEventPerNotification ==
    [][/\ Len(events') >= Len(events)
       /\ SubSeq(events', 1, Len(events)) = events
       /\ Len(nodes') >= Len(nodes)
       /\ \A i \in 1..Len(nodes) : nodes'[i].id = nodes[i].id
       /\ Len(edges') >= Len(edges)
       /\ SubSeq(edges', 1, Len(edges)) = edges
       /\ Len(events') = Len(events) +
              (IF Delivered(last') /\ Accepted(last'.n) THEN 1 ELSE 0)]_vars

Rendered == fcall.fn = "safe_repr" /\ fcall.ret.done

\* C16: a textual form longer than the limit is rendered as its first
\* `limit` characters followed by the one-character marker (length
\* limit + 1); a textual form of length at most the limit is returned
\* unchanged.
C16_TruncateToLimitPlusMarker ==
    Rendered /\ fcall.arg.tag = "value" /\ fcall.arg.ok =>
        /\ ~fcall.ret.raised
        /\ Len(fcall.arg.text) > MaxReprLen =>
               /\ fcall.ret.value =
                      SubSeq(fcall.arg.text, 1, MaxReprLen) \o <<Marker>>
               /\ Len(fcall.ret.value) = MaxReprLen + 1
        /\ Len(fcall.arg.text) <= MaxReprLen =>
               fcall.ret.value = fcall.arg.text

C16_Witness ==
    /\ Rendered
    /\ fcall.arg.ok
    /\ Len(fcall.arg.text) > MaxReprLen + 1
    /\ fcall.ret.value[MaxReprLen + 1] = Marker

\* C17: render never raises; when the textual form cannot be produced it
\* returns the sentinel (rendered under the limit like any other text).
C17_RenderNeverRaises ==
    Rendered =>
        /\ ~fcall.ret.raised
        /\ ~fcall.arg.ok =>
               fcall.ret.value \in
                   {Sentinel, SubSeq(Sentinel, 1, MaxReprLen) \o <<Marker>>}

\* C18: for every Event e of the program, Event.from_dict(e.to_dict())
\* returns an event equal to e.
C18_EventRoundTrip ==
    fcall.fn = "round_trip" /\ fcall.ret.done =>
        /\ ~fcall.ret.raised
        /\ PyEq(fcall.ret.value, fcall.arg)

\* C19: run_file on an unreadable file raises to the caller and returns no
\* RunResult; no recorder was ever created, nothing is recorded and the
\* trace hook is not installed.
C19_UnreadableFileRaises ==
    pc = "open_failed" =>
        /\ IsSet(propagated)
        /\ result = None
        /\ rec_id = 0
        /\ events = <<>> /\ nodes = <<>> /\ edges = <<>>
        /\ hook = "none"
        /\ last = NoNotif

C19_Witness == pc = "open_failed" /\ propagated = Some("OSError")

\* C20: every run starts with a recorder in the initial state and numbers
\* its events and nodes from 1; the recorder of the second run is another
\* object than the first run's, and the first run's RunResult keeps its
\* events, nodes and edges while the second run records.
C20_FreshRecorderPerRun ==
    /\ pc = "try" =>
          /\ events = <<>> /\ nodes = <<>> /\ edges = <<>>
          /\ call_stack = <<>>
          /\ event_id = 0 /\ node_id = 0
    /\ \A i \in 1..Len(events) : events[i].id = i
    /\ \A i \in 1..Len(nodes) : nodes[i].id = i
    /\ IsSet(first) =>
          /\ first[1].rec /= rec_id
          /\ FirstResultNow = first[1].res

C20_Witness ==
    /\ IsSet(first)
    /\ pc = "done"
    /\ IsSet(result)
    /\ first[1].res.events /= <<>>
    /\ result[1].events /= <<>>
    /\ result[1].events /= first[1].res.events

\* C21: Event(...) with id <= 0, node_id <= 0, lineno < 0, an empty
\* func_name or an empty filename raises and creates no Event; with none of
\* these it returns the Event with the fields it was given.
C21_InvalidEventRejected ==
    fcall.fn = "Event" /\ fcall.ret.done =>
        /\ fcall.ret.raised <=>
               \/ fcall.arg.id <= 0
               \/ fcall.arg.node_id <= 0
               \/ fcall.arg.lineno < 0
               \/ fcall.arg.func_name = ""
               \/ fcall.arg.filename = ""
        /\ fcall.ret.raised => fcall.ret = Raises
        /\ ~fcall.ret.raised => fcall.ret.value = fcall.arg

C21_Witness ==
    /\ fcall.fn = "Event"
    /\ fcall.ret.raised
    /\ fcall.arg.id = 0
    /\ fcall.arg.node_id = 1
    /\ fcall.arg.lineno = 0
    /\ fcall.arg.func_name = "f"
    /\ fcall.arg.filename = UnitFile

\* The consequence of C21 for a run: every recorded event is a valid one.
LoggedEventsValid ==
    \A i \in 1..Len(events) :
        /\ events[i].id > 0
        /\ events[i].node_id > 0
        /\ events[i].lineno >= 0
        /\ events[i].func_name /= ""
        /\ events[i].filename /= ""

\* A step in which trace took the branch of `kind` for an accepted
\* notification: every such branch starts by allocating an event id.
BranchStep(kind) == event_id' = event_id + 1 /\ last'.n.kind = kind

\* C22: an accepted call notification pushes the new node id (the stack
\* grows by one, the new id on top) and appends exactly one edge from the
\* previous top to the new id when the stack was non-empty, none otherwise.
C22_CallPushesAndLinks ==
    [][BranchStep("call") =>
          /\ call_stack' = Append(call_stack, node_id')
          /\ node_id' = node_id + 1
          /\ edges' = IF call_stack /= <<>>
                      THEN Append(edges, CallEdge(Top(call_stack), node_id'))
                      ELSE edges]_vars

C24_ExceptionRecordedNoPop ==
    [][BranchStep("exception") =>
          /\ call_stack /= <<>>
          /\ call_stack' = call_stack
          /\ Len(events') = Len(events) + 1
          /\ SubSeq(events', 1, Len(events)) = events
          /\ events'[Len(events')].type = "exception"
          /\ events'[Len(events')].node_id = Top(call_stack)
          /\ events'[Len(events')].arg =
                 Some(last'.n.arg.type \o <<":", " ">> \o last'.n.arg.text)
          /\ Len(nodes') = Len(nodes)
          /\ \A i \in 1..Len(nodes) :
                IF nodes[i].id = Top(call_stack)
                THEN nodes'[i] = [nodes[i] EXCEPT
                                    !.exception = events'[Len(events')].arg]
                ELSE nodes'[i] = nodes[i]]_vars

C26_StackIsOpenNodes ==
    /\ \A k \in 1..Len(call_stack) :
          \E i \in 1..Len(nodes) :
              nodes[i].id = call_stack[k] /\ ~IsSet(nodes[i].return_event_id)
    /\ \A i \in 1..Len(nodes) :
          ~IsSet(nodes[i].return_event_id) =>
              \E k \in 1..Len(call_stack) : call_stack[k] = nodes[i].id
    /\ \A j, k \in 1..Len(call_stack) :
          j < k => call_stack[j] < call_stack[k]

C26_Witness ==
    /\ Len(nodes) = 3
    /\ IsSet(nodes[2].return_event_id)
    /\ call_stack = <<nodes[1].id, nodes[3].id>>

\* C27: every event is tagged with the id of an existing node; for a node
\* with call_event_id c and return_event_id r, c < r, the event with id r is
\* a return event tagged with that node whose arg is the node's
\* return_value, and every event e tagged with the node has c <= e.id <= r.
C27_EventsWithinNodeLifetime ==
    /\ \A k \in 1..Len(events) :
          \E i \in 1..Len(nodes) : nodes[i].id = events[k].node_id
    /\ \A i \in 1..Len(nodes) :
          /\ IsSet(nodes[i].return_event_id) =>
                /\ nodes[i].call_event_id < nodes[i].return_event_id[1]
                /\ \E k \in 1..Len(events) :
                      /\ events[k].id = nodes[i].return_event_id[1]
                      /\ events[k].type = "return"
                      /\ events[k].node_id = nodes[i].id
                      /\ events[k].arg = nodes[i].return_value
          /\ \A k \in 1..Len(events) :
                events[k].node_id = nodes[i].id =>
                    /\ nodes[i].call_event_id <= events[k].id
                    /\ IsSet(nodes[i].return_event_id) =>
                           events[k].id <= nodes[i].return_event_id[1]

C27_Witness ==
    /\ Len(nodes) = 2
    /\ Len(events) = 4
    /\ IsSet(nodes[2].return_event_id)
    /\ events[4].type = "line"
    /\ events[4].node_id = nodes[1].id

NodeIds == {nodes[i].id : i \in 1..Len(nodes)}

\* Node i was created while another call was active: an earlier node had
\* not returned when the call event of node i was recorded.
CreatedNested(i) ==
    \E m \in 1..Len(nodes) :
        /\ nodes[m].call_event_id < nodes[i].call_event_id
        /\ IsSet(nodes[m].return_event_id) =>
               nodes[m].return_event_id[1] > nodes[i].call_event_id

ReturnEvents == {k \in 1..Len(events) : events[k].type = "return"}

\* C29: the stack depth is the number of nodes minus the number of recorded
\* returns, so after a well-bracketed sequence the stack is empty; whenever
\* it is empty every node has return_event_id and return_value set; a node
\* with neither return_value nor exception is still on the call stack.
C29_BracketedRunCompletesNodes ==
    /\ Len(call_stack) = Len(nodes) - Cardinality(ReturnEvents)
    /\ call_stack = <<>> =>
          \A i \in 1..Len(nodes) :
              IsSet(nodes[i].return_event_id) /\ IsSet(nodes[i].return_value)
    /\ \A i \in 1..Len(nodes) :
          ~IsSet(nodes[i].return_value) /\ ~IsSet(nodes[i].exception) =>
              \E k \in 1..Len(call_stack) : call_stack[k] = nodes[i].id

C29_Witness ==
    /\ call_stack = <<>>
    /\ Len(nodes) = 2
    /\ Len(edges) = 1
    /\ Len(events) = 4
    /\ events[4].type = "return"
    /\ events[4].node_id = nodes[1].id

Bounded(text) == Len(text) <= MaxReprLen + 1

\* C30: every text the recorder stores has length at most limit + 1: the
\* values of every event's locals and of every node's args, every event
\* arg, and every node's return_value and exception.
C30_SnapshotsBounded ==
    /\ \A k \in 1..Len(events) :
          /\ \A x \in DOMAIN events[k].locals : Bounded(events[k].locals[x])
          /\ IsSet(events[k].arg) => Bounded(events[k].arg[1])
    /\ \A i \in 1..Len(nodes) :
          /\ \A x \in DOMAIN nodes[i].args : Bounded(nodes[i].args[x])
          /\ IsSet(nodes[i].return_value) => Bounded(nodes[i].return_value[1])
          /\ IsSet(nodes[i].exception) => Bounded(nodes[i].exception[1])
====
